---- MODULE Spec2Model ----
(***************************************************************************)
(* State machine of the PhotoBooth component (app/page.tsx): the session   *)
(* stages, the countdown interval, the delayed capture, the camera         *)
(* acquisition and the React state the handlers update.                    *)
(*                                                                         *)
(* One React commit is one step: the state updates a handler batches, the  *)
(* refs of the elements that mount or unmount with them, and the passive   *)
(* effect cleanup that the commit triggers, happen together.               *)
(***************************************************************************)
EXTENDS Naturals, Integers, Sequences, FiniteSets, TLC

VARIABLES
  currentStep,        \* useState "landing" | "selection" | "camera" | "note" | "preview"
  curtainsOpen,       \* useState boolean
  selectedLayout,     \* useState PhotoLayout
  selectedFilter,     \* useState Filter
  selectedOverlay,    \* useState Overlay
  timerSeconds,       \* useState number
  countdown,          \* useState number
  capturedPhotos,     \* useState CapturedPhoto[]
  currentPhotoIndex,  \* useState number
  cameraStream,       \* useState MediaStream | null
  cameraError,        \* useState string | null
  isLoading,          \* useState boolean
  polaroidNote,       \* useState string
  srcObject,          \* videoRef.current.srcObject of the mounted <video>
  liveStreams,        \* MediaStreams whose tracks have not been stopped
  intervals,          \* live setInterval timers of startCountdown
  captureTimeouts,    \* pending setTimeout(() => capturePhoto(), 100)
  startTimeouts,      \* pending setTimeout(..., 1200) of handleStartPhotoBooth
  acquisitions        \* startCamera invocations suspended at each await

vars == <<currentStep, curtainsOpen, selectedLayout, selectedFilter,
          selectedOverlay, timerSeconds, countdown, capturedPhotos,
          currentPhotoIndex, cameraStream, cameraError, isLoading,
          polaroidNote, srcObject, liveStreams, intervals, captureTimeouts,
          startTimeouts, acquisitions>>

sessionVars == <<currentStep, curtainsOpen, selectedLayout, selectedFilter,
                 selectedOverlay, timerSeconds, countdown, capturedPhotos,
                 currentPhotoIndex, polaroidNote>>

deviceVars == <<cameraStream, cameraError, isLoading, srcObject, liveStreams,
                acquisitions>>

timerVars == <<intervals, captureTimeouts, startTimeouts>>

----------------------------------------------------------------------------
(* Bounds of the exploration *)

\* captures the user still asks for once the layout's count is reached
MaxExtra == 1
\* start clicks whose 1200 ms timers are pending together
MaxStartTimeouts == 2
\* startCamera invocations in flight together
MaxAcquisitions == 2

----------------------------------------------------------------------------
(* Catalogs *)

PhotoLayout == {"1x1", "1x2", "1x3", "1x4"}

Filter == {"none", "vintage", "blackwhite", "warm", "cool", "neon", "retro", "dreamy"}

Overlay == {"none", "hat", "glasses", "crown", "hearts", "stars", "rainbow", "fire"}

photoLayoutConfig ==
  [l \in PhotoLayout |->
     CASE l = "1x1" -> [count |-> 1]
       [] l = "1x2" -> [count |-> 2]
       [] l = "1x3" -> [count |-> 3]
       [] l = "1x4" -> [count |-> 4]]

\* the <SelectItem value="3" | "5" | "10"> of the timer control
TimerItems == {3, 5, 10}

\* the timer items the modelled user picks in Spec
TimerInputs == {3, 5}

\* the values the modelled user picks in the filter and overlay controls
FilterInputs == {"none", "blackwhite"}

OverlayInputs == {"none", "hat"}

\* the texts the modelled user types into the note field
NoteInputs == {"", "hi"}

\* setTimeout(() => setCurrentStep("selection"), 1200)
StartDelayMs == 1200

\* setInterval(..., 1000)
IntervalMs == 1000

\* interval firings that fit between a start click and its timeout
StartDelayTicks == (StartDelayMs + IntervalMs - 1) \div IntervalMs

NoStream == 0

\* the awaits of startCamera
AwaitPoints == {"enumerateDevices", "getUserMedia", "videoReady"}

\* an acquisition needs one MediaStream beside the one cameraStream still holds
Streams == {1, 2}

NoError == "null"

\* the messages startCamera's catch block and capturePhoto's catch block set
CameraErrors == {"NotAllowedError", "NotFoundError", "NotReadableError",
                 "Other", "CaptureFailed"}

----------------------------------------------------------------------------
(* Helpers *)

RemoveAt(s, i) == SubSeq(s, 1, i - 1) \o SubSeq(s, i + 1, Len(s))

IsPrefix(s, t) == Len(s) <= Len(t) /\ SubSeq(t, 1, Len(s)) = s

\* const isSessionComplete = capturedPhotos.length >= photoLayoutConfig[selectedLayout].count
isSessionComplete == Len(capturedPhotos) >= photoLayoutConfig[selectedLayout].count

\* {!cameraError && !isLoading && (<video ref={videoRef} .../>)} inside the camera step
VideoMounted == currentStep = "camera" /\ cameraError = NoError /\ ~isLoading

\* <canvas ref={canvasRef} className="hidden" /> inside the camera step
CanvasMounted == currentStep = "camera"

\* a <video> element keeps its srcObject only while it stays mounted
KeepSrcObject == srcObject' = IF VideoMounted /\ VideoMounted' THEN srcObject ELSE NoStream

Init ==
  /\ currentStep = "landing"
  /\ curtainsOpen = FALSE
  /\ selectedLayout = "1x1"
  /\ selectedFilter = "none"
  /\ selectedOverlay = "none"
  /\ timerSeconds = 3
  /\ countdown = 0
  /\ capturedPhotos = <<>>
  /\ currentPhotoIndex = 0
  /\ cameraStream = NoStream
  /\ cameraError = NoError
  /\ isLoading = FALSE
  /\ polaroidNote = ""
  /\ srcObject = NoStream
  /\ liveStreams = {}
  /\ intervals = <<>>
  /\ captureTimeouts = <<>>
  /\ startTimeouts = <<>>
  /\ acquisitions = [pc \in AwaitPoints |-> 0]


----------------------------------------------------------------------------
(* Device session: startCamera, stopCamera and the cleanup effect *)

\* useEffect(() => () => stopCamera(), [stopCamera]): when a commit changes
\* cameraStream from old to new, the cleanup of the previous render runs
\* stopCamera with cameraStream = old; if it calls setCameraStream(null) the
\* next commit runs the cleanup of the render that held new.
CleanupStream(old, new) == IF old # NoStream /\ new # old THEN NoStream ELSE new

CleanupLive(live, old, new) == IF old # NoStream /\ new # old THEN live \ {old, new} ELSE live

\* a MediaStream object nothing refers to any more can be told from no other
FreshStream == CHOOSE s \in Streams \ (liveStreams \cup {cameraStream, srcObject}) : TRUE

HasFreshStream == Streams \ (liveStreams \cup {cameraStream, srcObject}) # {}

InFlight == acquisitions["enumerateDevices"] + acquisitions["getUserMedia"]
              + acquisitions["videoReady"]

\* one invocation moves on from the await it was suspended at
Leave(pc) == [acquisitions EXCEPT ![pc] = @ - 1]

Move(from, to) == [acquisitions EXCEPT ![from] = @ - 1, ![to] = @ + 1]

\* startCamera up to its first await
StartCamera ==
  /\ InFlight < MaxAcquisitions
  /\ isLoading' = TRUE
  /\ cameraError' = NoError
  /\ liveStreams' = liveStreams \ {cameraStream}
  /\ acquisitions' = [acquisitions EXCEPT !["enumerateDevices"] = @ + 1]
  /\ UNCHANGED cameraStream

\* {cameraError && (<div> ... Try Again ... Back to Selection ...)} in the camera step
ErrorPanelShown == currentStep = "camera" /\ cameraError # NoError

\* a catch block that sets the message and calls startCamera again
AcquisitionFailsRetries(pc, error) ==
  /\ cameraError' = error
  /\ isLoading' = TRUE
  /\ acquisitions' = [Leave(pc) EXCEPT !["enumerateDevices"] = @ + 1]
  /\ UNCHANGED <<cameraStream, liveStreams>>
  /\ KeepSrcObject

\* a catch block that logs the error and sets no message
AcquisitionFailsSilently(pc, error) ==
  /\ isLoading' = FALSE
  /\ acquisitions' = Leave(pc)
  /\ UNCHANGED <<cameraStream, liveStreams, cameraError>>
  /\ KeepSrcObject

\* catch (error) { setCameraError(errorMessage) } finally { setIsLoading(false) }
AcquisitionFails(pc, error) ==
  /\ cameraError' = error
  /\ isLoading' = FALSE
  /\ acquisitions' = Leave(pc)
  /\ UNCHANGED <<cameraStream, liveStreams>>
  /\ KeepSrcObject

\* await checkCameraAvailability(): an empty or failed enumeration throws
\* Error("No camera devices found"), whose name is none of the three tested
EnumerateDevices(found) ==
  /\ UNCHANGED <<sessionVars, timerVars>>
  /\ acquisitions["enumerateDevices"] > 0
  /\ IF found
       THEN /\ acquisitions' = Move("enumerateDevices", "getUserMedia")
            /\ UNCHANGED <<cameraStream, cameraError, isLoading, srcObject, liveStreams>>
       ELSE AcquisitionFails("enumerateDevices", "Other")

\* await navigator.mediaDevices.getUserMedia(constraints), then
\* setCameraStream(stream) and, when the <video> is mounted, the wait for it
GetUserMedia(result) ==
  /\ UNCHANGED <<sessionVars, timerVars>>
  /\ acquisitions["getUserMedia"] > 0
  /\ IF result = "stream"
       THEN /\ HasFreshStream
            /\ cameraStream' = CleanupStream(cameraStream, FreshStream)
            /\ liveStreams' = CleanupLive(liveStreams \cup {FreshStream}, cameraStream, FreshStream)
            /\ srcObject' = NoStream
            /\ UNCHANGED cameraError
            /\ IF VideoMounted
                 THEN /\ acquisitions' = Move("getUserMedia", "videoReady")
                      /\ UNCHANGED isLoading
                 ELSE /\ acquisitions' = Leave("getUserMedia")
                      /\ isLoading' = FALSE
       ELSE AcquisitionFails("getUserMedia", result)

\* the promise on "loadedmetadata" / "error" / the 10 s timeout
VideoReady(event) ==
  /\ UNCHANGED <<sessionVars, timerVars>>
  /\ acquisitions["videoReady"] > 0
  /\ IF event = "loadedmetadata"
       THEN /\ isLoading' = FALSE
            /\ acquisitions' = Leave("videoReady")
            /\ UNCHANGED <<cameraStream, cameraError, liveStreams>>
            /\ KeepSrcObject
       ELSE AcquisitionFails("videoReady", "Other")

\* <Button onClick={startCamera}> Try Again, shown while cameraError is set
TryAgain ==
  /\ currentStep = "camera"
  /\ cameraError # NoError
  /\ StartCamera
  /\ UNCHANGED <<sessionVars, timerVars>>
  /\ KeepSrcObject

----------------------------------------------------------------------------
(* Countdown and capture *)

\* canvas.width = video.videoWidth || 640
DefaultWidth == 640

\* canvas.height = video.videoHeight || 480
DefaultHeight == 480

\* a <video> without a loaded source reports videoWidth 0 and videoHeight 0
NoFrame == [videoWidth |-> 0, videoHeight |-> 0]

\* the sizes the <video> reports: nothing loaded, or the ideal 1280 x 720 of
\* the constraints
VideoFrames == {NoFrame, [videoWidth |-> 1280, videoHeight |-> 720]}

\* canvas dimensions that keep a reported 0
canvasSizeNoFallback(frame) ==
  [width |-> frame.videoWidth, height |-> frame.videoHeight]

\* canvas.width = video.videoWidth || 640; canvas.height = video.videoHeight || 480
canvasSize(frame) ==
  [width  |-> IF frame.videoWidth = 0 THEN DefaultWidth ELSE frame.videoWidth,
   height |-> IF frame.videoHeight = 0 THEN DefaultHeight ELSE frame.videoHeight]

\* the overlays capturePhoto has a drawing branch for
OverlaysDrawn == {"hat", "glasses", "crown", "hearts", "stars"}

\* the canvas after clearRect: nothing drawn, ctx.filter at its default
ClearedCanvas(size) ==
  [width |-> size.width, height |-> size.height, filter |-> "none",
   pixels |-> [frame |-> "blank", overlay |-> "none", overlayFilter |-> "none"],
   dataUrl |-> [width |-> size.width, height |-> size.height,
                pixels |-> [frame |-> "blank", overlay |-> "none",
                            overlayFilter |-> "none"]]]

\* the canvas calls of capturePhoto without ctx.filter = "none" before the overlay
CanvasCallsNoReset(filter, overlay) ==
  <<[op |-> "filter", arg |-> filter], [op |-> "drawImage", arg |-> "video"]>>
  \o (IF overlay \in OverlaysDrawn
        THEN <<[op |-> "overlay", arg |-> overlay]>> ELSE <<>>)
  \o <<[op |-> "toDataURL", arg |-> "image/jpeg"]>>

\* the canvas calls of capturePhoto in program order: ctx.filter =
\* filterMap[selectedFilter]; drawImage(video); ctx.filter = "none"; the
\* branch of selectedOverlay; canvas.toDataURL
CanvasCalls(filter, overlay) ==
  <<[op |-> "filter", arg |-> filter], [op |-> "drawImage", arg |-> "video"],
    [op |-> "filter", arg |-> "none"]>>
  \o (IF overlay \in OverlaysDrawn
        THEN <<[op |-> "overlay", arg |-> overlay]>> ELSE <<>>)
  \o <<[op |-> "toDataURL", arg |-> "image/jpeg"]>>

\* what the 2d context does with the calls: a drawing call paints under the
\* ctx.filter in force, toDataURL encodes what is painted so far
RECURSIVE Paint(_, _)
Paint(calls, canvas) ==
  IF calls = <<>> THEN canvas
  ELSE LET c == Head(calls) IN
    Paint(Tail(calls),
      CASE c.op = "filter" -> [canvas EXCEPT !.filter = c.arg]
        [] c.op = "drawImage" -> [canvas EXCEPT !.pixels.frame = canvas.filter]
        [] c.op = "overlay" ->
             [canvas EXCEPT !.pixels.overlay = c.arg,
                            !.pixels.overlayFilter = canvas.filter]
        [] c.op = "toDataURL" ->
             [canvas EXCEPT !.dataUrl = [width |-> canvas.width,
                                         height |-> canvas.height,
                                         pixels |-> canvas.pixels]])

\* the dataUrl a capture with this filter and overlay encodes from this frame
Render(filter, overlay, frame) ==
  Paint(CanvasCalls(filter, overlay), ClearedCanvas(canvasSize(frame))).dataUrl

\* new Date(): later than the timestamp of every photo taken before
Now == IF capturedPhotos = <<>> THEN 1
       ELSE capturedPhotos[Len(capturedPhotos)].timestamp + 1

\* capturePhoto putting the new photo in front: [newPhoto, ...prev]
CapturePhotoPrepends(closure, outcome, frame) ==
  IF ~VideoMounted \/ ~CanvasMounted \/ outcome = "noContext"
    THEN UNCHANGED <<capturedPhotos, currentPhotoIndex, cameraError, srcObject>>
    ELSE IF outcome = "throws"
      THEN /\ cameraError' = "CaptureFailed"
           /\ srcObject' = NoStream
           /\ UNCHANGED <<capturedPhotos, currentPhotoIndex>>
      ELSE /\ capturedPhotos' =
                 <<[dataUrl |-> Render(closure.selectedFilter,
                                       closure.selectedOverlay, frame),
                    timestamp |-> Now]>> \o capturedPhotos
           /\ currentPhotoIndex' = currentPhotoIndex + 1
           /\ UNCHANGED <<cameraError, srcObject>>

\* capturePhoto without its first guard, if (!videoRef.current ||
\* !canvasRef.current) return
CapturePhotoUnguarded(closure, outcome, frame) ==
  IF outcome = "noContext"
    THEN UNCHANGED <<capturedPhotos, currentPhotoIndex, cameraError, srcObject>>
    ELSE IF outcome = "throws"
      THEN /\ cameraError' = "CaptureFailed"
           /\ srcObject' = NoStream
           /\ UNCHANGED <<capturedPhotos, currentPhotoIndex>>
      ELSE /\ capturedPhotos' = Append(capturedPhotos,
                 [dataUrl |-> Render(closure.selectedFilter,
                                     closure.selectedOverlay, frame),
                  timestamp |-> Now])
           /\ currentPhotoIndex' = currentPhotoIndex + 1
           /\ UNCHANGED <<cameraError, srcObject>>

\* the body of capturePhoto, run with the selectedFilter and selectedOverlay
\* its useCallback closed over; outcome is what the canvas does and frame
\* what the <video> reports
CapturePhoto(closure, outcome, frame) ==
  IF ~VideoMounted \/ ~CanvasMounted \/ outcome = "noContext"
    THEN UNCHANGED <<capturedPhotos, currentPhotoIndex, cameraError, srcObject>>
    ELSE IF outcome = "throws"
      THEN /\ cameraError' = "CaptureFailed"
           /\ srcObject' = NoStream
           /\ UNCHANGED <<capturedPhotos, currentPhotoIndex>>
      ELSE /\ capturedPhotos' = Append(capturedPhotos,
                 [dataUrl |-> Render(closure.selectedFilter,
                                     closure.selectedOverlay, frame),
                  timestamp |-> Now])
           /\ currentPhotoIndex' = currentPhotoIndex + 1
           /\ UNCHANGED <<cameraError, srcObject>>

\* startCountdown without its first line, if (countdown > 0) return
StartCountdownUnguarded ==
  /\ countdown' = timerSeconds
  /\ intervals' = Append(intervals,
        [selectedFilter |-> selectedFilter, selectedOverlay |-> selectedOverlay])
  /\ UNCHANGED <<currentStep, curtainsOpen, selectedLayout, selectedFilter,
                 selectedOverlay, timerSeconds, capturedPhotos,
                 currentPhotoIndex, polaroidNote, deviceVars,
                 captureTimeouts, startTimeouts>>

\* startCountdown
StartCountdown ==
  IF countdown > 0
    THEN UNCHANGED vars
    ELSE /\ countdown' = timerSeconds
         /\ intervals' = Append(intervals,
               [selectedFilter |-> selectedFilter, selectedOverlay |-> selectedOverlay])
         /\ UNCHANGED <<currentStep, curtainsOpen, selectedLayout, selectedFilter,
                        selectedOverlay, timerSeconds, capturedPhotos,
                        currentPhotoIndex, polaroidNote, deviceVars,
                        captureTimeouts, startTimeouts>>

\* disabled={countdown > 0 || isLoading || !!cameraError}
CaptureDisabled == countdown > 0 \/ isLoading \/ cameraError # NoError

\* <Button onClick={startCountdown} disabled={...}>
CaptureButton ==
  /\ currentStep = "camera"
  /\ ~CaptureDisabled
  /\ Len(capturedPhotos) + Len(intervals) + Len(captureTimeouts)
       < photoLayoutConfig[selectedLayout].count + MaxExtra
  /\ StartCountdown

\* startCountdown called again while the countdown it started is running
StartCountdownAgain ==
  /\ currentStep = "camera"
  /\ countdown > 0
  /\ StartCountdown

\* the interval callback testing prev <= 0 instead of prev <= 1
IntervalCallbackOffByOne(i) ==
  IF countdown <= 0
    THEN /\ intervals' = RemoveAt(intervals, i)
         /\ captureTimeouts' = Append(captureTimeouts, intervals[i])
         /\ countdown' = 0
    ELSE /\ countdown' = countdown - 1
         /\ UNCHANGED <<intervals, captureTimeouts>>

\* the interval callback without setTimeout(() => capturePhoto(), 100)
IntervalCallbackNoCapture(i) ==
  IF countdown <= 1
    THEN /\ intervals' = RemoveAt(intervals, i)
         /\ countdown' = 0
         /\ UNCHANGED captureTimeouts
    ELSE /\ countdown' = countdown - 1
         /\ UNCHANGED <<intervals, captureTimeouts>>

\* the callback of interval i: setCountdown((prev) => ...)
IntervalCallback(i) ==
  IF countdown <= 1
    THEN /\ intervals' = RemoveAt(intervals, i)
         /\ captureTimeouts' = Append(captureTimeouts, intervals[i])
         /\ countdown' = 0
    ELSE /\ countdown' = countdown - 1
         /\ UNCHANGED <<intervals, captureTimeouts>>

\* A live interval fires. The 100 ms capture timeout of an interval that has
\* just ended fires before any interval started since can (1000 ms), and a
\* 1200 ms start timeout outlasts at most StartDelayTicks firings.
IntervalFires ==
  /\ captureTimeouts = <<>>
  /\ \A j \in DOMAIN startTimeouts : startTimeouts[j] < StartDelayTicks
  /\ \E i \in DOMAIN intervals : IntervalCallback(i)
  /\ startTimeouts' = [j \in DOMAIN startTimeouts |-> startTimeouts[j] + 1]
  /\ UNCHANGED <<currentStep, curtainsOpen, selectedLayout, selectedFilter,
                 selectedOverlay, timerSeconds, capturedPhotos,
                 currentPhotoIndex, polaroidNote, deviceVars>>

\* setTimeout(() => capturePhoto(), 100) fires
CaptureTimeoutFires(outcome, frame) ==
  /\ captureTimeouts # <<>>
  /\ CapturePhoto(Head(captureTimeouts), outcome, frame)
  /\ captureTimeouts' = Tail(captureTimeouts)
  /\ UNCHANGED <<currentStep, curtainsOpen, selectedLayout, selectedFilter,
                 selectedOverlay, timerSeconds, countdown, polaroidNote,
                 cameraStream, isLoading, liveStreams, acquisitions,
                 intervals, startTimeouts>>


----------------------------------------------------------------------------
(* Session stages *)

\* handleStartPhotoBooth
HandleStartPhotoBooth ==
  /\ currentStep = "landing"
  /\ Len(startTimeouts) < MaxStartTimeouts
  /\ curtainsOpen' = TRUE
  /\ startTimeouts' = Append(startTimeouts, 0)
  /\ UNCHANGED <<currentStep, selectedLayout, selectedFilter, selectedOverlay,
                 timerSeconds, countdown, capturedPhotos, currentPhotoIndex,
                 polaroidNote, deviceVars, intervals, captureTimeouts>>

\* setTimeout(() => { setCurrentStep("selection") }, 1200) fires; a 100 ms
\* capture timeout that was pending when the start button was clicked (no
\* interval has fired since) has fired by then
StartTimeoutFires ==
  /\ startTimeouts # <<>>
  /\ captureTimeouts = <<>> \/ Head(startTimeouts) > 0
  /\ startTimeouts' = Tail(startTimeouts)
  /\ currentStep' = "selection"
  /\ UNCHANGED <<curtainsOpen, selectedLayout, selectedFilter, selectedOverlay,
                 timerSeconds, countdown, capturedPhotos, currentPhotoIndex,
                 polaroidNote, cameraStream, cameraError, isLoading,
                 liveStreams, acquisitions, intervals, captureTimeouts>>
  /\ KeepSrcObject

\* handleLayoutSelection
HandleLayoutSelection(layout) ==
  /\ currentStep = "selection"
  /\ selectedLayout' = layout
  /\ currentStep' = "camera"
  /\ StartCamera
  /\ UNCHANGED <<curtainsOpen, selectedFilter, selectedOverlay, timerSeconds,
                 countdown, capturedPhotos, currentPhotoIndex, polaroidNote,
                 timerVars>>
  /\ KeepSrcObject

\* <Button onClick={() => setCurrentStep("selection")}> Back to Selection
BackToSelection ==
  /\ currentStep = "camera"
  /\ cameraError # NoError
  /\ currentStep' = "selection"
  /\ UNCHANGED <<curtainsOpen, selectedLayout, selectedFilter, selectedOverlay,
                 timerSeconds, countdown, capturedPhotos, currentPhotoIndex,
                 polaroidNote, cameraStream, cameraError, isLoading,
                 liveStreams, acquisitions, timerVars>>
  /\ KeepSrcObject

\* a filter control that also redraws the photos taken so far with the new filter
SetSelectedFilterRestyles(value) ==
  /\ currentStep = "camera"
  /\ value # selectedFilter
  /\ selectedFilter' = value
  /\ capturedPhotos' = [i \in DOMAIN capturedPhotos |->
        [capturedPhotos[i] EXCEPT !.dataUrl.pixels.frame = value]]
  /\ UNCHANGED <<currentStep, curtainsOpen, selectedLayout, selectedOverlay,
                 timerSeconds, countdown, currentPhotoIndex,
                 polaroidNote, deviceVars, timerVars>>

\* <Select value={selectedFilter} onValueChange={setSelectedFilter}>
SetSelectedFilter(value) ==
  /\ currentStep = "camera"
  /\ value # selectedFilter
  /\ selectedFilter' = value
  /\ UNCHANGED <<currentStep, curtainsOpen, selectedLayout, selectedOverlay,
                 timerSeconds, countdown, capturedPhotos, currentPhotoIndex,
                 polaroidNote, deviceVars, timerVars>>

\* <Select value={selectedOverlay} onValueChange={setSelectedOverlay}>
SetSelectedOverlay(value) ==
  /\ currentStep = "camera"
  /\ value # selectedOverlay
  /\ selectedOverlay' = value
  /\ UNCHANGED <<currentStep, curtainsOpen, selectedLayout, selectedFilter,
                 timerSeconds, countdown, capturedPhotos, currentPhotoIndex,
                 polaroidNote, deviceVars, timerVars>>

\* a timer control that also sets a running countdown to the new duration
SetTimerSecondsRestarts(value) ==
  /\ currentStep = "camera"
  /\ value # timerSeconds
  /\ timerSeconds' = value
  /\ countdown' = IF countdown > 0 THEN value ELSE countdown
  /\ UNCHANGED <<currentStep, curtainsOpen, selectedLayout, selectedFilter,
                 selectedOverlay, capturedPhotos, currentPhotoIndex,
                 polaroidNote, deviceVars, timerVars>>

\* onValueChange={(value) => setTimerSeconds(Number.parseInt(value))}
SetTimerSeconds(value) ==
  /\ currentStep = "camera"
  /\ value # timerSeconds
  /\ timerSeconds' = value
  /\ UNCHANGED <<currentStep, curtainsOpen, selectedLayout, selectedFilter,
                 selectedOverlay, countdown, capturedPhotos, currentPhotoIndex,
                 polaroidNote, deviceVars, timerVars>>

\* {isSessionComplete && <Button onClick={() => setCurrentStep("note")}>}
ReviewButton ==
  /\ currentStep = "camera"
  /\ isSessionComplete
  /\ currentStep' = "note"
  /\ UNCHANGED <<curtainsOpen, selectedLayout, selectedFilter, selectedOverlay,
                 timerSeconds, countdown, capturedPhotos, currentPhotoIndex,
                 polaroidNote, cameraStream, cameraError, isLoading,
                 liveStreams, acquisitions, timerVars>>
  /\ KeepSrcObject

\* <Textarea onChange={(e) => setPolaroidNote(e.target.value)}>
SetPolaroidNote(value) ==
  /\ currentStep = "note"
  /\ value # polaroidNote
  /\ polaroidNote' = value
  /\ UNCHANGED <<currentStep, curtainsOpen, selectedLayout, selectedFilter,
                 selectedOverlay, timerSeconds, countdown, capturedPhotos,
                 currentPhotoIndex, deviceVars, timerVars>>

\* <Button onClick={() => setCurrentStep("preview")}> Skip & Continue
SkipNote ==
  /\ currentStep = "note"
  /\ currentStep' = "preview"
  /\ UNCHANGED <<curtainsOpen, selectedLayout, selectedFilter, selectedOverlay,
                 timerSeconds, countdown, capturedPhotos, currentPhotoIndex,
                 polaroidNote, deviceVars, timerVars>>

\* <Button onClick={() => setCurrentStep("preview")}> Continue with Note
NoteContinue ==
  /\ currentStep = "note"
  /\ currentStep' = "preview"
  /\ UNCHANGED <<curtainsOpen, selectedLayout, selectedFilter, selectedOverlay,
                 timerSeconds, countdown, capturedPhotos, currentPhotoIndex,
                 polaroidNote, deviceVars, timerVars>>

\* handleRetake without setCurrentPhotoIndex(0)
HandleRetakeKeepsIndex ==
  /\ currentStep = "preview"
  /\ capturedPhotos' = <<>>
  /\ currentStep' = "camera"
  /\ cameraError' = NoError
  /\ UNCHANGED <<curtainsOpen, selectedLayout, selectedFilter, selectedOverlay,
                 timerSeconds, countdown, currentPhotoIndex, polaroidNote,
                 cameraStream, isLoading, liveStreams, acquisitions, timerVars>>
  /\ KeepSrcObject

\* handleRetake also putting the selections back to their initial values
HandleRetakeResetsSelections ==
  /\ currentStep = "preview"
  /\ capturedPhotos' = <<>>
  /\ currentPhotoIndex' = 0
  /\ currentStep' = "camera"
  /\ cameraError' = NoError
  /\ selectedFilter' = "none"
  /\ selectedOverlay' = "none"
  /\ timerSeconds' = 3
  /\ UNCHANGED <<curtainsOpen, selectedLayout, countdown, polaroidNote,
                 cameraStream, isLoading, liveStreams, acquisitions, timerVars>>
  /\ KeepSrcObject

\* handleRetake
HandleRetake ==
  /\ currentStep = "preview"
  /\ capturedPhotos' = <<>>
  /\ currentPhotoIndex' = 0
  /\ currentStep' = "camera"
  /\ cameraError' = NoError
  /\ UNCHANGED <<curtainsOpen, selectedLayout, selectedFilter, selectedOverlay,
                 timerSeconds, countdown, polaroidNote, cameraStream,
                 isLoading, liveStreams, acquisitions, timerVars>>
  /\ KeepSrcObject

\* what stopCamera works on: the cameraStream of its closure, the tracks that
\* are live, and the srcObject of the <video> when one is mounted
DeviceState == [cameraStream |-> cameraStream, liveStreams |-> liveStreams,
                srcObject |-> srcObject]

\* stopCamera stopping the tracks without setCameraStream(null)
stopCameraKeepsReference(d) ==
  [cameraStream |-> d.cameraStream,
   liveStreams  |-> d.liveStreams \ {d.cameraStream},
   srcObject    |-> NoStream]

\* the body of stopCamera: if (cameraStream) { stop every track;
\* setCameraStream(null) }; if (videoRef.current) srcObject = null
stopCamera(d) ==
  [cameraStream |-> NoStream,
   liveStreams  |-> IF d.cameraStream # NoStream
                      THEN d.liveStreams \ {d.cameraStream} ELSE d.liveStreams,
   srcObject    |-> NoStream]

\* stopCamera, called with the cameraStream of the current render
StopCamera ==
  /\ liveStreams' = stopCamera(DeviceState).liveStreams
  /\ cameraStream' = stopCamera(DeviceState).cameraStream
  /\ srcObject' = stopCamera(DeviceState).srcObject

\* handleNewSession without its last line, stopCamera()
HandleNewSessionKeepsStream ==
  /\ currentStep = "preview"
  /\ capturedPhotos' = <<>>
  /\ currentPhotoIndex' = 0
  /\ currentStep' = "landing"
  /\ curtainsOpen' = FALSE
  /\ cameraError' = NoError
  /\ polaroidNote' = ""
  /\ UNCHANGED <<selectedLayout, selectedFilter, selectedOverlay, timerSeconds,
                 countdown, isLoading, acquisitions, timerVars, cameraStream,
                 liveStreams>>
  /\ KeepSrcObject

\* handleNewSession
HandleNewSession ==
  /\ currentStep = "preview"
  /\ capturedPhotos' = <<>>
  /\ currentPhotoIndex' = 0
  /\ currentStep' = "landing"
  /\ curtainsOpen' = FALSE
  /\ cameraError' = NoError
  /\ polaroidNote' = ""
  /\ StopCamera
  /\ UNCHANGED <<selectedLayout, selectedFilter, selectedOverlay, timerSeconds,
                 countdown, isLoading, acquisitions, timerVars>>

----------------------------------------------------------------------------
(* Specification *)

CaptureOutcomes == {"ok", "noContext", "throws"}

GetUserMediaResults == {"stream", "NotAllowedError", "NotFoundError",
                        "NotReadableError", "Other"}

\* in Spec the modelled device fails by an empty enumeration only
GetUserMediaInputs == {"stream"}

\* the look of a photo: the pixels a capture paints with this filter and
\* this overlay
Look(filter, overlay) == Render(filter, overlay, NoFrame).pixels

\* in Spec the <video> has no source loaded when a photo is taken
FrameInputs == {NoFrame}

\* in Spec the modelled user settles filter and overlay before the first
\* countdown of a take, so that the photos of one take share their look
LookChoiceOpen == capturedPhotos = <<>> /\ intervals = <<>> /\ captureTimeouts = <<>>

VideoEvents == {"loadedmetadata", "error", "timeout"}

\* the steps of the component: the user picks layouts and timer items from the
\* given sets, getUserMedia settles with one of results, and the filter and
\* overlay controls are used at any time (anyLook) or while LookChoiceOpen,
\* and the <video> reports one of frames at a capture
NextWith(layouts, timers, results, anyLook, frames) ==
  \/ HandleStartPhotoBooth
  \/ StartTimeoutFires
  \/ \E layout \in layouts : HandleLayoutSelection(layout)
  \/ BackToSelection
  \/ TryAgain
  \/ \E found \in BOOLEAN : EnumerateDevices(found)
  \/ \E result \in results : GetUserMedia(result)
  \/ \E event \in VideoEvents : VideoReady(event)
  \/ \E value \in FilterInputs : (anyLook \/ LookChoiceOpen) /\ SetSelectedFilter(value)
  \/ \E value \in OverlayInputs : (anyLook \/ LookChoiceOpen) /\ SetSelectedOverlay(value)
  \/ \E value \in timers : SetTimerSeconds(value)
  \/ CaptureButton
  \/ StartCountdownAgain
  \/ IntervalFires
  \/ \E outcome \in CaptureOutcomes, frame \in frames :
        CaptureTimeoutFires(outcome, frame)
  \/ ReviewButton
  \/ \E value \in NoteInputs : SetPolaroidNote(value)
  \/ SkipNote
  \/ NoteContinue
  \/ HandleRetake
  \/ HandleNewSession

Next == NextWith(PhotoLayout, TimerInputs, GetUserMediaInputs, FALSE, FrameInputs)

Spec == Init /\ [][Next]_vars

\* every timer item, on the two-shot layout
NextTimer == NextWith({"1x2"}, TimerItems, GetUserMediaInputs, FALSE, FrameInputs)

SpecTimer == Init /\ [][NextTimer]_vars

\* the filter and the overlay changed at any time, on the two-shot layout
NextLook == NextWith({"1x2"}, TimerInputs, GetUserMediaInputs, TRUE, FrameInputs)

SpecLook == Init /\ [][NextLook]_vars

\* every way getUserMedia settles, on the two-shot layout
NextDevice == NextWith({"1x2"}, TimerInputs, GetUserMediaResults, FALSE, FrameInputs)

SpecDevice == Init /\ [][NextDevice]_vars

\* every size the <video> reports, on the two-shot layout
NextCanvas == NextWith({"1x2"}, TimerInputs, GetUserMediaInputs, FALSE, VideoFrames)

SpecCanvas == Init /\ [][NextCanvas]_vars

\* the one-shot layout, with the timers of the event loop firing: a due
\* callback of setInterval or setTimeout is run
NextFair == NextWith({"1x1"}, TimerInputs, GetUserMediaInputs, FALSE, FrameInputs)

TimersFire ==
  /\ WF_vars(IntervalFires)
  /\ WF_vars(\E outcome \in CaptureOutcomes, frame \in FrameInputs :
                CaptureTimeoutFires(outcome, frame))
  /\ WF_vars(StartTimeoutFires)

SpecFair == Init /\ [][NextFair]_vars /\ TimersFire

\* every item of the overlay control, <SelectItem> per entry of
\* overlayConfig, on the one-shot layout
NextOverlay ==
  \/ NextWith({"1x1"}, TimerInputs, GetUserMediaInputs, FALSE, FrameInputs)
  \/ \E value \in Overlay : LookChoiceOpen /\ SetSelectedOverlay(value)

SpecOverlay == Init /\ [][NextOverlay]_vars

TypeOK ==
  /\ currentStep \in {"landing", "selection", "camera", "note", "preview"}
  /\ curtainsOpen \in BOOLEAN
  /\ selectedLayout \in PhotoLayout
  /\ selectedFilter \in Filter
  /\ selectedOverlay \in Overlay
  /\ timerSeconds \in TimerItems
  /\ countdown \in 0..10
  /\ currentPhotoIndex \in Nat
  /\ cameraStream \in Streams \cup {NoStream}
  /\ cameraError \in CameraErrors \cup {NoError}
  /\ isLoading \in BOOLEAN
  /\ polaroidNote \in NoteInputs
  /\ srcObject \in Streams \cup {NoStream}
  /\ liveStreams \subseteq Streams
  /\ InFlight <= MaxAcquisitions


----------------------------------------------------------------------------
(* Claims *)

requiredShotCount == photoLayoutConfig[selectedLayout].count

\* C1: while the stage is Capturing, the number of captured photos is at most
\* the required shot count of the selected layout.
C1_PhotosWithinShotCount ==
  currentStep = "camera" => Len(capturedPhotos) <= requiredShotCount

\* C2: the stage changes from Capturing to Note (or Preview) only in a state
\* where photos.length is exactly the required shot count.
C2_LeavesCapturingOnlyWhenExact ==
  [][currentStep = "camera" /\ currentStep' \in {"note", "preview"}
       => Len(capturedPhotos) = requiredShotCount]_vars

\* C3: while a countdown is running there is exactly one interval timer, an
\* invocation of startCountdown creates no second one and leaves the remaining
\* value alone (the value only steps down by one), and the step that reaches 0
\* stops the interval and schedules exactly one capture.
C3_StartWhileRunningIsNoOp ==
  /\ [](Len(intervals) <= 1 /\ (countdown > 0 <=> intervals # <<>>))
  /\ [][countdown > 0 =>
          /\ Len(intervals') <= Len(intervals)
          /\ countdown' \in {countdown, countdown - 1}
          /\ Len(captureTimeouts') <= Len(captureTimeouts) + 1
          /\ (countdown' = 0 => /\ intervals' = <<>>
                                /\ Len(captureTimeouts') = Len(captureTimeouts) + 1)]_vars

\* C3 witness: a countdown is part-way through in the Capturing stage, where
\* startCountdown can be invoked again.
C3_Witness ==
  /\ currentStep = "camera"
  /\ Len(intervals) = 1
  /\ countdown > 0
  /\ countdown < timerSeconds

\* C4: when photos.length equals the required shot count, the capture action
\* starts no countdown.
C4_NoCountdownWhenComplete ==
  [][currentStep = "camera" /\ Len(capturedPhotos) = requiredShotCount
       => ~(countdown = 0 /\ countdown' > 0)]_vars

\* C5: a countdown that is running when the stage leaves Capturing is
\* cancelled: outside the Capturing stage no interval is live and no capture
\* is pending, so none can fire later.
C5_CountdownCancelledOnLeave ==
  currentStep # "camera" => intervals = <<>> /\ captureTimeouts = <<>>

\* a capturePhoto call that passes its guards and whose drawing and encoding succeed
CaptureSucceeds ==
  /\ VideoMounted
  /\ CanvasMounted
  /\ \E frame \in VideoFrames : CaptureTimeoutFires("ok", frame)

\* C6: a countdown starts at the selected duration N, steps down by one to 1,
\* and the step from 1 to 0 stops the interval and schedules exactly one
\* capture; a capture that succeeds in the Capturing stage appends exactly one
\* photo and leaves the stage Capturing.
C6_CountdownThenOneCapture ==
  [][/\ (countdown = 0 /\ countdown' > 0 =>
           countdown' = timerSeconds /\ timerSeconds \in TimerItems)
     /\ (countdown > 0 /\ countdown' # countdown => countdown' = countdown - 1)
     /\ (countdown > 0 /\ countdown' = 0 =>
           /\ intervals' = <<>>
           /\ captureTimeouts' = Append(captureTimeouts, intervals[1]))
     /\ (countdown' = countdown => Len(captureTimeouts') <= Len(captureTimeouts))
     /\ (CaptureSucceeds =>
           /\ Len(capturedPhotos') = Len(capturedPhotos) + 1
           /\ currentStep' = "camera")
     /\ Len(capturedPhotos') <= Len(capturedPhotos) + 1]_vars

\* C6 witness: an expiry has appended the first photo of a two-shot layout,
\* the stage is still Capturing, and a countdown of 10 has made its first step.
C6_Witness ==
  /\ currentStep = "camera"
  /\ selectedLayout = "1x2"
  /\ Len(capturedPhotos) = 1
  /\ timerSeconds = 10
  /\ countdown = 9
  /\ Len(intervals) = 1

\* C7: except at a retake or a new session, photos changes only by an append
\* at its end.
C7_AppendOnly ==
  [][\/ currentStep = "preview" /\ currentStep' \in {"camera", "landing"}
     \/ IsPrefix(capturedPhotos, capturedPhotos')]_vars

\* C7 witness: two photos have been appended one after the other.
C7_Witness ==
  /\ Len(capturedPhotos) = 2
  /\ capturedPhotos[1].timestamp < capturedPhotos[2].timestamp

\* C8: currentPhotoIndex equals capturedPhotos.length in every state.
C8_IndexIsLength == currentPhotoIndex = Len(capturedPhotos)

\* C8 witness: a retake emptied the photos of a take (the note typed for it is
\* still there) and a capture of the new take has counted up again.
C8_Witness ==
  /\ currentStep = "camera"
  /\ polaroidNote = "hi"
  /\ currentPhotoIndex = 1

\* C9: every transition from LayoutSelection to Capturing leaves photos empty
\* and the photo index at 0 and starts a device acquisition.
C9_LayoutSelectionResetsPhotos ==
  [][currentStep = "selection" /\ currentStep' = "camera" =>
       /\ capturedPhotos' = <<>>
       /\ currentPhotoIndex' = 0
       /\ InFlight' = InFlight + 1]_vars

\* C10: a retake leaves photos empty and the stage Capturing, and leaves the
\* selected layout, filter, overlay and timer duration as they were.
C10_RetakeKeepsConfiguration ==
  [][currentStep = "preview" /\ currentStep' = "camera" =>
       /\ capturedPhotos' = <<>>
       /\ selectedLayout' = selectedLayout
       /\ selectedFilter' = selectedFilter
       /\ selectedOverlay' = selectedOverlay
       /\ timerSeconds' = timerSeconds]_vars

\* C10 witness: the stage is Capturing again after a retake (the note of the
\* retaken strip is still there), photos is empty and no selection is at its
\* default.
C10_Witness ==
  /\ currentStep = "camera"
  /\ polaroidNote = "hi"
  /\ capturedPhotos = <<>>
  /\ selectedLayout = "1x3"
  /\ selectedFilter = "blackwhite"
  /\ selectedOverlay = "hat"
  /\ timerSeconds = 5

\* C11: the step from Preview to Landing (handleNewSession) leaves photos
\* empty and the note empty, stops every track of the stream that was held and
\* holds no stream afterwards, attached to the video element or not.
C11_NewSessionReleasesDevice ==
  [][currentStep = "preview" /\ currentStep' = "landing" =>
       /\ capturedPhotos' = <<>>
       /\ polaroidNote' = ""
       /\ cameraStream' = NoStream
       /\ srcObject' = NoStream
       /\ cameraStream \notin liveStreams'
       /\ liveStreams' = {}]_vars

\* C11 witness: back on Landing with the curtains closed after a session on
\* the two-shot layout (which a new session does not reset), nothing held.
C11_Witness ==
  /\ currentStep = "landing"
  /\ ~curtainsOpen
  /\ selectedLayout = "1x2"
  /\ capturedPhotos = <<>>
  /\ polaroidNote = ""
  /\ cameraStream = NoStream
  /\ liveStreams = {}

\* the edges of the stage graph: Landing -> LayoutSelection -> Capturing ->
\* Note -> Preview, abort, retake and new session
StageEdges ==
  {<<"landing", "selection">>, <<"selection", "camera">>, <<"camera", "note">>,
   <<"note", "preview">>, <<"camera", "selection">>, <<"preview", "camera">>,
   <<"preview", "landing">>, <<"note", "landing">>}

\* C12: every step that changes the stage follows an edge of the stage graph,
\* the steps of delayed start timers included.
C12_StageFollowsGraph ==
  [][currentStep' # currentStep => <<currentStep, currentStep'>> \in StageEdges]_vars

\* C13: a step that changes the selected filter or the selected overlay leaves
\* photos as it was: every entry keeps its image data and its timestamp.
C13_LookChangeKeepsPhotos ==
  [][selectedFilter' # selectedFilter \/ selectedOverlay' # selectedOverlay
       => capturedPhotos' = capturedPhotos]_vars

\* C13 witness: filter and overlay were changed between two captures, and the
\* first photo still has the look it was taken with.
C13_Witness ==
  /\ Len(capturedPhotos) = 2
  /\ capturedPhotos[1].dataUrl.pixels = Look("none", "none")
  /\ capturedPhotos[2].dataUrl.pixels = Look("blackwhite", "hat")
  /\ capturedPhotos[1].timestamp < capturedPhotos[2].timestamp

\* C14: a photo that is appended carries the filter and the overlay selected
\* at the moment it is appended.
C14_CapturedWithSelectedLook ==
  [][Len(capturedPhotos') = Len(capturedPhotos) + 1 =>
       capturedPhotos'[Len(capturedPhotos')].dataUrl.pixels
         = Look(selectedFilter, selectedOverlay)]_vars

\* C15: when getUserMedia hands a new stream to startCamera, every stream
\* acquired before has been stopped, so that the new stream is never live
\* together with an older one.
C15_ReleasesBeforeObtaining ==
  [][GetUserMedia("stream") => liveStreams = {}]_vars

\* C16: stopCamera applied to the result of stopCamera changes nothing more,
\* after one call no stream is held and the stream that was held is stopped,
\* and with no stream held a call stops no track.
C16_StopCameraIdempotent ==
  LET once == stopCamera(DeviceState) IN
    /\ stopCamera(once) = once
    /\ once.cameraStream = NoStream
    /\ once.srcObject = NoStream
    /\ cameraStream \notin once.liveStreams
    /\ (cameraStream = NoStream => once.liveStreams = liveStreams)

\* C16 witness: in Preview, where handleNewSession calls stopCamera, a live
\* stream is held, so that the first call has something to release.
C16_Witness ==
  /\ currentStep = "preview"
  /\ cameraStream \in liveStreams
  /\ stopCamera(DeviceState) # DeviceState

\* the session presents the device as Ready: the Capturing stage shows the live
\* view, neither the loading panel nor the error panel
PresentedReady == currentStep = "camera" /\ ~isLoading /\ cameraError = NoError

\* C17: whenever the device is presented as Ready, cameraStream holds a
\* stream whose tracks are live.
C17_ReadyHoldsLiveStream ==
  PresentedReady => cameraStream # NoStream /\ cameraStream \in liveStreams

\* C18: a countdown starts only when the device is Ready: not loading, no
\* error set, no acquisition in flight, and a live stream held.
C18_CountdownOnlyWhenReady ==
  [][countdown = 0 /\ countdown' > 0 =>
       /\ ~isLoading
       /\ cameraError = NoError
       /\ InFlight = 0
       /\ cameraStream # NoStream
       /\ cameraStream \in liveStreams]_vars

\* C19: when getUserMedia rejects with NotAllowedError, the error message for
\* refused permission is set and loading ends, photos and the stage are left
\* as they were, and in the Capturing stage the error panel with Try Again is
\* shown.
C19_PermissionDeniedKeepsSession ==
  [][GetUserMedia("NotAllowedError") =>
       /\ cameraError' = "NotAllowedError"
       /\ ~isLoading'
       /\ capturedPhotos' = capturedPhotos
       /\ currentStep' = currentStep
       /\ (currentStep = "camera" => ErrorPanelShown')]_vars

\* C19 witness: permission was refused in the Capturing stage of a session
\* that already has a photo; the photo is still there.
C19_Witness ==
  /\ currentStep = "camera"
  /\ cameraError = "NotAllowedError"
  /\ ~isLoading
  /\ Len(capturedPhotos) = 1

\* C20: a failed acquisition sets the message of its cause: an enumeration
\* without a video input sets the message for NotFoundError, and a rejection
\* of getUserMedia sets the message for the name it rejects with (the generic
\* message only for a name outside the three).
C20_FailureClassified ==
  [][/\ (EnumerateDevices(FALSE) => cameraError' = "NotFoundError")
     /\ \A result \in GetUserMediaResults \ {"stream"} :
          GetUserMedia(result) => cameraError' = result]_vars

\* the messages startCamera sets for the causes it tells apart and for all others
DeviceErrors == {"NotAllowedError", "NotFoundError", "NotReadableError", "Other"}

\* C21: when the wait for the first frame runs into its timeout, the
\* acquisition ends with loading cleared and an error that is none of the
\* errors reported for other causes.
C21_TimeoutIsDistinguishable ==
  [][VideoReady("timeout") => ~isLoading' /\ cameraError' \notin DeviceErrors \cup {NoError}]_vars

\* C22: startCamera is entered only by Try Again and by a layout selection,
\* and a step that reports a device error ends its acquisition without
\* starting another.
C22_NoAutomaticRetry ==
  [][/\ (acquisitions'["enumerateDevices"] > acquisitions["enumerateDevices"]
           \/ InFlight' > InFlight
         => TryAgain \/ \E layout \in PhotoLayout : HandleLayoutSelection(layout))
     /\ (cameraError' \in DeviceErrors /\ cameraError' # cameraError
         => InFlight' = InFlight - 1)]_vars

\* C22 witness: an acquisition has ended in a device error in the Capturing
\* stage and nothing is in flight; the error panel waits for the user.
C22_Witness ==
  /\ currentStep = "camera"
  /\ cameraError \in DeviceErrors
  /\ ~isLoading
  /\ InFlight = 0

\* C23: a rejection of the getUserMedia request made with the ideal
\* constraints (the one request an acquisition makes) reports no error: the
\* acquisition goes on to wait for a request with minimal constraints.
C23_FirstRejectionFallsBack ==
  [][\A result \in GetUserMediaResults \ {"stream"} :
       GetUserMedia(result) =>
         /\ cameraError' = cameraError
         /\ isLoading' = isLoading
         /\ acquisitions'["getUserMedia"] = acquisitions["getUserMedia"]]_vars

\* a capturePhoto call that passes its element guards and fails in the
\* compositor: no 2d context, or drawing or encoding throws
CaptureFails ==
  /\ VideoMounted
  /\ CanvasMounted
  /\ \E frame \in VideoFrames :
        CaptureTimeoutFires("noContext", frame) \/ CaptureTimeoutFires("throws", frame)

\* C24: a capture that fails in the compositor leaves photos and the photo
\* index unchanged and the stage Capturing, and the capture button is enabled
\* afterwards unless a countdown is running.
C24_FailedCaptureKeepsSession ==
  [][CaptureFails =>
       /\ capturedPhotos' = capturedPhotos
       /\ currentPhotoIndex' = currentPhotoIndex
       /\ currentStep' = "camera"
       /\ (countdown' = 0 => ~CaptureDisabled')]_vars

\* C25: a capture that fails in the compositor sets no device error: the
\* live view stays mounted and the error panel with Try Again is not shown.
C25_FailedCaptureKeepsDeviceReady ==
  [][CaptureFails =>
       /\ cameraError' = cameraError
       /\ VideoMounted'
       /\ ~ErrorPanelShown']_vars

\* C26: while the capture of an expired countdown is pending, no countdown is
\* in progress.
C26_NoCountdownWhileCapturePending ==
  captureTimeouts # <<>> => intervals = <<>> /\ countdown = 0

\* C27: in the Note stage the Skip & Continue step is always enabled, and
\* taking it leaves the note empty.
C27_SkipLeavesNoteUnset ==
  /\ [](currentStep = "note" => ENABLED SkipNote)
  /\ [][SkipNote => polaroidNote' = ""]_vars

\* C28: every captured photo has a non-zero width and height: the size is
\* the one the video reports, with a reported width of 0 replaced by 640 and
\* a reported height of 0 by 480.
C28_PhotoSizeNonZero ==
  \A i \in DOMAIN capturedPhotos :
    LET d == capturedPhotos[i].dataUrl IN
      /\ d.width > 0
      /\ d.height > 0
      /\ \E frame \in VideoFrames :
            /\ d.width = (IF frame.videoWidth = 0 THEN 640 ELSE frame.videoWidth)
            /\ d.height = (IF frame.videoHeight = 0 THEN 480 ELSE frame.videoHeight)

\* C28 witness: one photo was taken while the video reported 0 x 0 and has
\* the default size, the next while it reported its native size.
C28_Witness ==
  /\ Len(capturedPhotos) = 2
  /\ capturedPhotos[1].dataUrl.width = 640
  /\ capturedPhotos[1].dataUrl.height = 480
  /\ capturedPhotos[2].dataUrl.width = 1280
  /\ capturedPhotos[2].dataUrl.height = 720

\* the filter and overlay pairs a capture runs with or may come to run with:
\* the current selection and the closures of the countdowns and captures pending
LooksInPlay ==
  {[selectedFilter |-> selectedFilter, selectedOverlay |-> selectedOverlay]}
    \cup {intervals[i] : i \in DOMAIN intervals}
    \cup {captureTimeouts[i] : i \in DOMAIN captureTimeouts}

\* C29: a capture sets the selected filter, draws the frame, resets the
\* filter to none, draws the overlay and encodes, in this order; in every
\* photo the frame carries its filter and the overlay was drawn under none.
C29_FilterBeforeOverlay ==
  /\ \A look \in LooksInPlay :
        LET calls == CanvasCalls(look.selectedFilter, look.selectedOverlay) IN
          /\ calls[1] = [op |-> "filter", arg |-> look.selectedFilter]
          /\ calls[2].op = "drawImage"
          /\ calls[3] = [op |-> "filter", arg |-> "none"]
          /\ calls[Len(calls)].op = "toDataURL"
          /\ \A k \in DOMAIN calls :
                calls[k].op = "overlay" =>
                  k = 4 /\ k < Len(calls) /\ calls[k].arg = look.selectedOverlay
  /\ \A i \in DOMAIN capturedPhotos :
        LET pixels == capturedPhotos[i].dataUrl.pixels IN
          /\ pixels.frame \in Filter
          /\ pixels.overlayFilter = "none"

\* C29 witness: a photo taken with a color filter and an overlay: the frame
\* is filtered, the overlay is in the encoded image and is not.
C29_Witness ==
  /\ capturedPhotos # <<>>
  /\ capturedPhotos[1].dataUrl.pixels =
       [frame |-> "blackwhite", overlay |-> "hat", overlayFilter |-> "none"]

\* C30: the step from Preview to Landing (handleNewSession) leaves filter,
\* overlay and timer duration at their defaults and leaves no countdown
\* running and no capture pending.
C30_NewSessionIsIndependent ==
  [][currentStep = "preview" /\ currentStep' = "landing" =>
       /\ capturedPhotos' = <<>>
       /\ polaroidNote' = ""
       /\ selectedFilter' = "none"
       /\ selectedOverlay' = "none"
       /\ timerSeconds' = 3
       /\ countdown' = 0
       /\ intervals' = <<>>
       /\ captureTimeouts' = <<>>]_vars

\* C31: the step from Preview back to Capturing (handleRetake) issues no
\* device request when cameraStream holds a live stream, and leaves an
\* acquisition under way when no live stream is held.
C31_RetakeAcquiresOnlyIfReleased ==
  [][HandleRetake =>
       IF cameraStream \in liveStreams
         THEN acquisitions' = acquisitions
         ELSE InFlight' > 0]_vars

\* C32: whenever the capture action is enabled (stage Capturing, not
\* loading, no error) the mounted video has the acquired stream as its
\* source: srcObject is the stream cameraStream holds, and that stream is live.
C32_EnabledCaptureHasStreamAttached ==
  (currentStep = "camera" /\ ~isLoading /\ cameraError = NoError) =>
     /\ srcObject # NoStream
     /\ srcObject = cameraStream
     /\ srcObject \in liveStreams

\* the steps that release the device on purpose: a new session, and the
\* start and the completion of a later acquisition
ExplicitRelease ==
  \/ HandleNewSession
  \/ TryAgain
  \/ \E layout \in PhotoLayout : HandleLayoutSelection(layout)
  \/ GetUserMedia("stream")

\* C33: a stream that getUserMedia has just delivered is live and is the one
\* cameraStream refers to, and a live stream cameraStream refers to stays so
\* over every step that is not an explicit release.
C33_AcquiredStreamStaysHeld ==
  [][/\ GetUserMedia("stream") =>
          cameraStream' # NoStream /\ cameraStream' \in liveStreams'
     /\ cameraStream \in liveStreams /\ ~ExplicitRelease =>
          cameraStream' = cameraStream /\ cameraStream' \in liveStreams']_vars

\* C34: while the stage is Landing no device stream is live, whatever
\* acquisition was in flight when the session left the Capturing stage.
C34_NoLiveStreamInLanding ==
  currentStep = "landing" => liveStreams = {}

\* an acquisition ends in its catch block: no camera enumerated, the
\* getUserMedia request rejected, or the wait for the video failed
AcquisitionEndsInError ==
  \/ EnumerateDevices(FALSE)
  \/ \E result \in GetUserMediaResults \ {"stream"} : GetUserMedia(result)
  \/ \E event \in VideoEvents \ {"loadedmetadata"} : VideoReady(event)

\* C35: when an acquisition ends in Error no stream is live and cameraStream
\* is null.
C35_ErrorHoldsNoStream ==
  [][AcquisitionEndsInError =>
       liveStreams' = {} /\ cameraStream' = NoStream]_vars

\* a capture trigger fires: the timeout set by an expired countdown runs
\* capturePhoto
CaptureTriggerFires ==
  \E outcome \in CaptureOutcomes, frame \in VideoFrames :
     CaptureTimeoutFires(outcome, frame)

\* C36: a photo is appended only by a step taken in the Capturing stage; a
\* capture trigger that fires in another stage changes neither the photos
\* nor the photo index; and in Preview the photos change only by retake or
\* new session.
C36_PhotosGrowOnlyInCapturing ==
  [][/\ Len(capturedPhotos') > Len(capturedPhotos) =>
          currentStep = "camera" /\ currentStep' = "camera"
     /\ currentStep # "camera" /\ CaptureTriggerFires =>
          capturedPhotos' = capturedPhotos /\ currentPhotoIndex' = currentPhotoIndex
     /\ currentStep = "preview" /\ capturedPhotos' # capturedPhotos =>
          HandleRetake \/ HandleNewSession]_vars

\* C36 witness: the session is in Preview with its photos taken and the
\* capture of a countdown left running is about to fire.
C36_Witness ==
  /\ currentStep = "preview"
  /\ capturedPhotos # <<>>
  /\ captureTimeouts # <<>>

\* the device is Ready: no acquisition in flight, no error set, and a live
\* stream held
DeviceReady ==
  /\ ~isLoading
  /\ InFlight = 0
  /\ cameraError = NoError
  /\ cameraStream # NoStream
  /\ cameraStream \in liveStreams

\* C37: a capture trigger that fires while the device is not Ready appends
\* no photo and leaves the photo index unchanged.
C37_NoPhotoUnlessReady ==
  [][~DeviceReady /\ CaptureTriggerFires =>
       capturedPhotos' = capturedPhotos /\ currentPhotoIndex' = currentPhotoIndex]_vars

\* C38: with the timers firing, a running countdown reaches 0 at a step that
\* schedules its capture, a scheduled capture runs, and then the capture
\* button is enabled unless loading or an error disables it; the countdown
\* is never negative.
C38_CountdownEnds ==
  /\ [](countdown >= 0)
  /\ (countdown > 0 ~> (countdown = 0 /\ captureTimeouts # <<>>))
  /\ (captureTimeouts # <<>> ~> captureTimeouts = <<>>)
  /\ [](countdown = 0 /\ ~isLoading /\ cameraError = NoError => ~CaptureDisabled)

\* C38 witness: a countdown has just expired in the Capturing stage: it is at
\* 0, its interval is stopped and its capture is scheduled.
C38_Witness ==
  /\ currentStep = "camera"
  /\ countdown = 0
  /\ intervals = <<>>
  /\ Len(captureTimeouts) = 1

\* C39: a change of the timer duration leaves a running countdown, its
\* interval and the captures scheduled as they are; a countdown starts at the
\* duration selected at that moment, only steps down by one, and schedules
\* one capture at the step that reaches 0.
C39_TimerChangeKeepsCountdown ==
  [][/\ timerSeconds' # timerSeconds =>
          /\ countdown' = countdown
          /\ intervals' = intervals
          /\ captureTimeouts' = captureTimeouts
     /\ countdown = 0 /\ countdown' > 0 =>
          countdown' = timerSeconds /\ timerSeconds' = timerSeconds
     /\ countdown > 0 =>
          /\ countdown' \in {countdown, countdown - 1}
          /\ (countdown' = 0 =>
                Len(captureTimeouts') = Len(captureTimeouts) + 1)]_vars

\* C39 witness: a countdown started at a longer duration is still above the
\* duration selected since: the timer was changed while it was running.
C39_Witness ==
  /\ currentStep = "camera"
  /\ intervals # <<>>
  /\ countdown > timerSeconds

\* C40: a capture run with an overlay other than none draws a shape after
\* the frame: the photo it appends differs from the photo a capture with
\* overlay none encodes from the same frame with the same filter.
C40_EveryOverlayIsDrawn ==
  [][\A frame \in VideoFrames :
       (/\ CaptureTimeoutFires("ok", frame)
        /\ Len(capturedPhotos') > Len(capturedPhotos)
        /\ Head(captureTimeouts).selectedOverlay # "none")
       => capturedPhotos'[Len(capturedPhotos')].dataUrl
            # Render(Head(captureTimeouts).selectedFilter, "none", frame)]_vars

====
